---- MODULE Spec2Model ----
(***************************************************************************)
(* Live multiplayer quiz session engine (Queez backend).                   *)
(*                                                                         *)
(* One session of the fast store (Redis hash session:<code>, the per-player *)
(* question-index keys, the lock keys and the rate-limit keys) and the      *)
(* handlers that run against it concurrently.  Every handler is a coroutine *)
(* that can be suspended at each await on the store, so a handler is a      *)
(* sequence of atomic steps, one per store round trip that reads or writes  *)
(* mutable session state; reads of fields that never change after           *)
(* create_session (host_id, the cached quiz) are folded into the step that  *)
(* follows them.                                                           *)
(*                                                                         *)
(* Beside the session under study: its auto-advance timers, the completed   *)
(* and completion_check keys of self-paced completion detection, and the    *)
(* codes under which create_session stores session records.                *)
(*                                                                         *)
(* Left out: usernames and joined_at (never read by the modelled code),     *)
(* the TTL of the session hash, and the expiry of a lock lease while its    *)
(* holder is still inside the critical section.                            *)
(***************************************************************************)
EXTENDS Integers, Sequences, FiniteSets, Bags, TLC

\* ------------------------------------------------------------------ bounds
MaxTasks == 2          \* handlers in flight at the same time
MaxOps == 3            \* frames / requests dispatched in one behaviour
TotalQuestions == 2    \* len(quiz["questions"])
MaxRetries == 2        \* max_retries (20 in the source), scaled
MaxLockRetries == 2    \* max_lock_retries (50 in the source), scaled

\* ------------------------------------------------------- program constants
base_points == 1000
question_time_limit == 30

host_id == "host"
Players == {"u1", "u2"}
Users == {host_id} \cup Players
NoLock == ""           \* a lock key is absent
Codes == {"AAAAAA", "BBBBBB", "CCCCCC"}   \* the codes random.choices can draw
session_code == "AAAAAA"         \* the code of the session under study
NoIndex == -1          \* the key participant:<code>:<user>:question_index is absent

\* answers a client can put in a submit_answer frame: the index of the right
\* option, of a wrong option, or null (a timeout)
Answers == {"right", "wrong", "null"}
ClientTimestamps == {0}

VARIABLES
    status,             \* session:<code> status
    participants,       \* session:<code> participants: the JSON object, in key order
    question_index,     \* participant:<code>:<user>:question_index
    answer_lock,        \* lock:answer:<code>:<user>
    participants_lock,  \* lock:participants:<code>
    session_lock,       \* lock:session:<code>:participants
    rate,               \* rate:answer:<code>:<user>
    task,               \* the handlers in flight: a bag of coroutine frames
    recorded,           \* the answers that submit_answer saved and reported as recorded
    ops,                \* frames / requests dispatched so far
    current_question_index,  \* session:<code> current_question_index
    timers,             \* the auto_advance_question tasks that are still asleep, by index
    active_timers,      \* the keys of the active_timers dict, by index
    completed,          \* completed:<code>:<user>
    completion_lock,    \* completion_check:<code>
    quiz_ended,         \* quiz_ended frames broadcast to the session so far
    live,               \* the session records of the store: code -> host_id
    grading,            \* one call of the answer grading: its inputs and its result
    session_connections, \* ConnectionManager.session_connections[<code>]: user -> socket
    endpoints           \* the sockets whose websocket_endpoint coroutine is running

\* shared pacing, completion detection
paced == <<current_question_index, timers, active_timers>>
completion == <<completed, completion_lock>>
registry == <<session_connections, endpoints>>

vars == <<status, participants, question_index, answer_lock, participants_lock,
          session_lock, rate, task, recorded, ops, paced, completion, quiz_ended, live,
          grading, registry>>

\* ------------------------------------------------- the participants object
Keys(ps) == {ps[i].user_id : i \in 1..Len(ps)}
Pos(ps, u) == CHOOSE i \in 1..Len(ps) : ps[i].user_id = u
Get(ps, u) == ps[Pos(ps, u)]
Put(ps, u, p) == IF u \in Keys(ps) THEN [ps EXCEPT ![Pos(ps, u)] = p] ELSE Append(ps, p)

RECURSIVE SumPoints(_)
SumPoints(as) == IF as = <<>> THEN 0 ELSE Head(as).points_earned + SumPoints(Tail(as))

Indices(as) == {as[i].question_index : i \in 1..Len(as)}

\* session_manager.py:126-133
new_participant(u) == [user_id |-> u, connected |-> TRUE, score |-> 0, answers |-> <<>>]

\* session_manager.py:119-133: add or update the participant in the parsed object
upsert_participant(ps, u) ==
    IF u \in Keys(ps)
    THEN Put(ps, u, [Get(ps, u) EXCEPT !.connected = TRUE])
    ELSE Put(ps, u, new_participant(u))

\* add_participant without its host guard
add_participant_rejects_nobody(u) == FALSE

\* session_manager.py:85-88
add_participant_rejects(u) == u = host_id

\* a host check that lets every user through
is_host_everyone(u) == TRUE

\* session_manager.py:200-201
is_host(u) == u = host_id

\* an end that reopens a session that had already ended
end_session_reopens == IF status = "completed" THEN "active" ELSE "completed"

\* session_manager.py:193-196: the status end_session writes
end_session == "completed"

\* the duplicate check left out
never_answered(p, i) == FALSE

\* game_controller.py:327-330
already_answered(p, i) == \E k \in 1..Len(p.answers) : p.answers[k].question_index = i

\* the score assigned (=) instead of accumulated (+=)
record_answer_assigns_score(p, i, pts) ==
    [p EXCEPT !.answers = Append(@, [question_index |-> i, points_earned |-> pts]),
              !.score = pts]

\* game_controller.py:333-340
record_answer(p, i, pts) ==
    [p EXCEPT !.answers = Append(@, [question_index |-> i, points_earned |-> pts]),
              !.score = @ + pts]

\* game_controller.py:201-208, 279-290 for a singleMcq question whose time
\* limit is question_time_limit; timestamps are multiples of the limit
points_for(answer, timestamp) ==
    IF answer = "right"
    THEN LET elapsed == IF timestamp < question_time_limit
                        THEN timestamp ELSE question_time_limit
         IN base_points
            + (base_points * (question_time_limit - elapsed)) \div question_time_limit
    ELSE 0

\* game_controller.py:486-498
get_participant_question_index(u) ==
    IF question_index[u] = NoIndex THEN 0 ELSE question_index[u]

\* a delete that leaves the key in place
delete_skipped(holder) == holder

\* redis DEL key: the key is absent afterwards, whoever had set it
delete_key(holder) == NoLock

\* redis SET key value NX: succeeds when the key is absent
set_nx(holder) == holder = NoLock

\* SET without nx: the lock is taken whether or not it is held
participants_lock_ignores_nx(holder) == TRUE

\* game_controller.py:302-307
participants_lock_acquired(holder) == set_nx(holder)

\* ------------------------------------------------------------------ tasks
Frame == [op |-> "idle", user |-> "-", pc |-> "idle", idx |-> 0, snap |-> <<>>,
         pts |-> 0, attempt |-> 0, res |-> "", todo |-> <<>>, recon |-> FALSE,
         valid |-> TRUE, late |-> FALSE, all_completed |-> TRUE, tries |-> 0,
         connections |-> {}, delivered |-> {}, dead_users |-> {}]

Begin(op, u, pc) ==
    [Frame EXCEPT !.op = op, !.user = u, !.pc = pc, !.late = (status = "completed")]

\* the handler has answered its caller with res
Reply(r, res) ==
    [Frame EXCEPT !.op = r.op, !.user = r.user, !.pc = "ret", !.res = res,
                 !.idx = r.idx, !.pts = r.pts, !.late = r.late]

CanDispatch == BagCardinality(task) < MaxTasks /\ ops < MaxOps

\* the sockets a user opens
Channels == {"A", "B"}
NoChannel == "-"

\* connection_manager.py:10-19: no socket is registered
NoConnections ==
    /\ session_connections = [u \in Users |-> NoChannel]
    /\ endpoints = {}

\* no answer is being graded
NoGrading == [graded |-> FALSE]

\* session_manager.py:32-48: the session record of the session under study;
\* websocket.py:21: no timer yet; no completed or completion_check key
InitGateway ==
    /\ current_question_index = 0
    /\ timers = {}
    /\ active_timers = {}
    /\ completed = [u \in Users |-> FALSE]
    /\ completion_lock = NoLock
    /\ quiz_ended = 0
    /\ live = [c \in Codes |-> IF c = session_code THEN host_id ELSE NoLock]
    /\ grading = NoGrading
    /\ NoConnections

Init ==
    /\ status = "waiting"
    /\ participants = <<>>
    /\ question_index = [u \in Users |-> NoIndex]
    /\ answer_lock = [u \in Users |-> NoLock]
    /\ participants_lock = NoLock
    /\ session_lock = NoLock
    /\ rate = [u \in Users |-> FALSE]
    /\ task = EmptyBag
    /\ recorded = {}
    /\ ops = 0
    /\ InitGateway

\* a handler is dispatched, takes a step, returns
Start(n) == task' = task (+) SetToBag({n})
Step(r, n) == task' = (task (-) SetToBag({r})) (+) SetToBag({n})

\* ------------------------------------------------------------------ grading
\* the option indices of a question, the time limits in seconds that a question
\* or a session carries, and the client timestamps (seconds since the
\* question was shown)
Options == {0, 1, 2}
TimeLimits == {10, 30}
Timestamps == {0, 5, 10, 20, 30, 45}

\* full credit for any selection
partial_points_full(num_correct, num_wrong, total_correct) == base_points

\* game_controller.py:228-234, 268: int(base_points * partial_credit) with
\* partial_credit = (num_correct - num_wrong) / total_correct kept in [0, 1]
partial_points(num_correct, num_wrong, total_correct) ==
    IF num_correct - num_wrong <= 0 THEN 0
    ELSE IF num_correct - num_wrong >= total_correct THEN base_points
    ELSE (base_points * (num_correct - num_wrong)) \div total_correct

\* game_controller.py:272-275, 285-288: the points and the time bonus
\* int(points * (multiplier - 1)), multiplier = max(1.0, 2.0 - elapsed / limit)
with_time_bonus(points, timestamp, limit) ==
    LET elapsed == IF timestamp < limit THEN timestamp ELSE limit
    IN points + (points * (limit - elapsed)) \div limit

\* game_controller.py:200-236, 252-290: the grading of one answer to question
\* q.  The limit of the bonus is the question's timeLimit (or the configured
\* default when the question has none); the session's
\* per_question_time_limit is not read
calculate_points(q, answer, timestamp) ==
    IF q.type = "multiMcq"
    THEN LET num_correct == Cardinality(answer \cap q.correct)
             num_wrong == Cardinality(answer \ q.correct)
             partial == partial_points(num_correct, num_wrong, Cardinality(q.correct))
         IN [is_correct |-> answer = q.correct,
             points |-> IF partial > 0
                        THEN with_time_bonus(partial, timestamp, q.timeLimit)
                        ELSE partial]
    ELSE [is_correct |-> answer = q.correct,
          points |-> IF answer = q.correct
                     THEN with_time_bonus(base_points, timestamp, q.timeLimit)
                     ELSE 0]

\* the questions of a quiz: a singleMcq question has one correct index, a
\* multiMcq question a non-empty set of them
Questions ==
    [type : {"singleMcq"}, correct : Options, timeLimit : TimeLimits]
    \cup [type : {"multiMcq"}, correct : (SUBSET Options) \ {{}}, timeLimit : TimeLimits]

\* the answers a client can send to q
AnswersTo(q) == IF q.type = "multiMcq" THEN SUBSET Options ELSE Options



\* ---------------------------------------------------------- submit_answer
\* websocket.py:458-481: host guard, then the read of the rate-limit key.  The
\* key is set with ex=1: a read that comes after the second has passed finds
\* it gone (expired), any earlier read finds it.
handle_submit_answer(u, answer, timestamp, timeout, expired) ==
    /\ CanDispatch
    /\ ops' = ops + 1
    /\ expired => rate[u]
    /\ rate' = IF expired THEN [rate EXCEPT ![u] = FALSE] ELSE rate
    /\ LET b == Begin("submit_answer", u, "rate_set") IN
       IF is_host(u) THEN Start(Reply(b, "Host cannot participate in quiz"))
       ELSE IF rate'[u] THEN Start(Reply(b, "Please wait before submitting again"))
       ELSE Start([b EXCEPT !.pts = points_for(answer, timestamp),
                              !.valid = ~(answer = "null" /\ ~timeout)])
    /\ UNCHANGED <<grading, registry, paced, completion, quiz_ended, live, status, participants, question_index, answer_lock,
                   participants_lock, session_lock, recorded>>

\* websocket.py:481-493: set the cooldown key, then validate the payload
submit_rate_set(r) ==
    /\ r.pc = "rate_set"
    /\ rate' = [rate EXCEPT ![r.user] = TRUE]
    /\ IF r.valid
       THEN Step(r, [r EXCEPT !.pc = "answer_lock", !.attempt = 0])
       ELSE Step(r, Reply(r, "Invalid answer submission"))
    /\ UNCHANGED <<grading, registry, paced, completion, quiz_ended, live, status, participants, question_index, answer_lock,
                   participants_lock, session_lock, recorded, ops>>

\* game_controller.py:117-130, 148: one attempt on lock:answer:<code>:<user>
submit_answer_lock(r) ==
    /\ r.pc = "answer_lock"
    /\ LET u == r.user IN
       IF set_nx(answer_lock[u])
       THEN /\ answer_lock' = [answer_lock EXCEPT ![u] = "1"]
            /\ Step(r, [r EXCEPT !.pc = "get_index", !.attempt = 0])
       ELSE /\ answer_lock' = answer_lock
            /\ IF r.attempt + 1 >= MaxRetries
               THEN Step(r, Reply(r, "Failed to process answer after multiple attempts"))
               ELSE Step(r, [r EXCEPT !.attempt = @ + 1])
    /\ UNCHANGED <<grading, registry, paced, completion, quiz_ended, live, status, participants, question_index, participants_lock,
                   session_lock, rate, recorded, ops>>

\* game_controller.py:160-290: read the player's index, grade
process_get_index(r) ==
    /\ r.pc = "get_index"
    /\ LET i == get_participant_question_index(r.user) IN
       IF i >= TotalQuestions
       THEN Step(r, [r EXCEPT !.pc = "answer_unlock", !.idx = i,
                                    !.res = "Invalid question index"])
       ELSE Step(r, [r EXCEPT !.pc = "participants_lock", !.idx = i,
                                    !.attempt = 0])
    /\ UNCHANGED <<grading, registry, paced, completion, quiz_ended, live, status, participants, question_index, answer_lock,
                   participants_lock, session_lock, rate, recorded, ops>>

\* game_controller.py:300-311, 355-358: one attempt on lock:participants:<code>
process_participants_lock(r) ==
    /\ r.pc = "participants_lock"
    /\ IF participants_lock_acquired(participants_lock)
       THEN /\ participants_lock' = r.user
            /\ Step(r, [r EXCEPT !.pc = "read", !.attempt = 0])
       ELSE /\ participants_lock' = participants_lock
            /\ IF r.attempt + 1 >= MaxLockRetries
               THEN Step(r, [r EXCEPT !.pc = "answer_unlock", !.attempt = 0,
                                            !.res = "Server busy, please try again"])
               ELSE Step(r, [r EXCEPT !.attempt = @ + 1])
    /\ UNCHANGED <<grading, registry, paced, completion, quiz_ended, live, status, participants, question_index, answer_lock,
                   session_lock, rate, recorded, ops>>

\* game_controller.py:315-340: read the object, check, record in the local copy
process_read(r) ==
    /\ r.pc = "read"
    /\ LET u == r.user
           ps == participants IN
       IF u \notin Keys(ps)
       THEN Step(r, [r EXCEPT !.pc = "participants_unlock",
                                    !.res = "Participant not found"])
       ELSE IF already_answered(Get(ps, u), r.idx)
       THEN Step(r, [r EXCEPT !.pc = "participants_unlock",
                                    !.res = "Already answered"])
       ELSE Step(r, [r EXCEPT !.pc = "save",
                        !.snap = Put(ps, u, record_answer(Get(ps, u), r.idx, r.pts))])
    /\ UNCHANGED <<grading, registry, paced, completion, quiz_ended, live, status, participants, question_index, answer_lock,
                   participants_lock, session_lock, rate, recorded, ops>>

\* game_controller.py:347: write the local copy back
process_save(r) ==
    /\ r.pc = "save"
    /\ participants' = r.snap
    /\ recorded' = recorded \cup {[user_id |-> r.user,
                                   question_index |-> r.idx,
                                   points_earned |-> r.pts]}
    /\ Step(r, [r EXCEPT !.pc = "participants_unlock", !.snap = <<>>])
    /\ UNCHANGED <<grading, registry, paced, completion, quiz_ended, live, status, question_index, answer_lock, participants_lock,
                   session_lock, rate, ops>>

\* game_controller.py:352-354: delete lock:participants:<code>
process_participants_unlock(r) ==
    /\ r.pc = "participants_unlock"
    /\ participants_lock' = delete_key(participants_lock)
    /\ IF r.res = ""
       THEN Step(r, [r EXCEPT !.pc = "advance"])
       ELSE Step(r, [r EXCEPT !.pc = "answer_unlock"])
    /\ UNCHANGED <<grading, registry, paced, completion, quiz_ended, live, status, participants, question_index, answer_lock,
                   session_lock, rate, recorded, ops>>

\* game_controller.py:402-404: advance the player's index
process_advance(r) ==
    /\ r.pc = "advance"
    /\ question_index' = [question_index EXCEPT ![r.user] = r.idx + 1]
    /\ Step(r, [r EXCEPT !.pc = "answer_unlock", !.res = "ok"])
    /\ UNCHANGED <<grading, registry, paced, completion, quiz_ended, live, status, participants, answer_lock, participants_lock,
                   session_lock, rate, recorded, ops>>

\* game_controller.py:134-136: delete lock:answer:<code>:<user>; websocket.py:500-521
submit_answer_unlock(r) ==
    /\ r.pc = "answer_unlock"
    /\ answer_lock' = [answer_lock EXCEPT ![r.user] = delete_key(@)]
    /\ IF r.res = "raised"
       THEN Step(r, [r EXCEPT !.pc = "except_unlock"])
       ELSE Step(r, Reply(r, r.res))
    /\ UNCHANGED <<grading, registry, paced, completion, quiz_ended, live, status, participants, question_index, participants_lock,
                   session_lock, rate, recorded, ops>>

\* the handler returns
Return(r) ==
    /\ r.pc = "ret"
    /\ task' = task (-) SetToBag({r})
    /\ UNCHANGED <<grading, registry, paced, completion, quiz_ended, live, status, participants, question_index, answer_lock,
                   participants_lock, session_lock, rate, recorded, ops>>

\* ------------------------------------------------------------------- join
\* websocket.py:146-210: load the session, host branch, admission check
handle_join(u) ==
    /\ CanDispatch
    /\ ops' = ops + 1
    /\ LET b == Begin("join", u, "session_lock")
           is_reconnecting == u \in Keys(participants) IN
       IF is_host(u) THEN Start(Reply(b, "session_state"))
       ELSE IF status # "waiting" /\ ~is_reconnecting
       THEN Start(Reply(b, "Session is already active"))
       ELSE IF add_participant_rejects(u) THEN Start(Reply(b, "join failed"))
       ELSE Start([b EXCEPT !.recon = is_reconnecting])
    /\ UNCHANGED <<grading, registry, paced, completion, quiz_ended, live, status, participants, question_index, answer_lock,
                   participants_lock, session_lock, rate, recorded>>

\* live_multiplayer.py:128-149: the REST join
join_session(u) ==
    /\ CanDispatch
    /\ ops' = ops + 1
    /\ LET b == Begin("join_session", u, "session_lock") IN
       IF status # "waiting" /\ u \notin Keys(participants)
       THEN Start(Reply(b, "Quiz has already started"))
       ELSE IF add_participant_rejects(u)
       THEN Start(Reply(b, "Failed to join session"))
       ELSE Start(b)
    /\ UNCHANGED <<grading, registry, paced, completion, quiz_ended, live, status, participants, question_index, answer_lock,
                   participants_lock, session_lock, rate, recorded>>

\* session_manager.py:94-107, 157-158: one attempt on lock:session:<code>:participants
add_participant_lock(r) ==
    /\ r.pc = "session_lock"
    /\ IF set_nx(session_lock)
       THEN /\ session_lock' = r.user
            /\ Step(r, [r EXCEPT !.pc = "add_read", !.attempt = 0])
       ELSE /\ session_lock' = session_lock
            /\ IF r.attempt + 1 >= MaxRetries
               THEN Step(r, Reply(r, IF r.op = "join" THEN "join failed"
                                           ELSE "Failed to join session"))
               ELSE Step(r, [r EXCEPT !.attempt = @ + 1])
    /\ UNCHANGED <<grading, registry, paced, completion, quiz_ended, live, status, participants, question_index, answer_lock,
                   participants_lock, rate, recorded, ops>>

\* session_manager.py:111-134: read the object, add or update in the local copy
add_participant_read(r) ==
    /\ r.pc = "add_read"
    /\ Step(r, [r EXCEPT !.pc = "add_save",
                               !.snap = upsert_participant(participants, r.user)])
    /\ UNCHANGED <<grading, registry, paced, completion, quiz_ended, live, status, participants, question_index, answer_lock,
                   participants_lock, session_lock, rate, recorded, ops>>

\* session_manager.py:137: write the local copy back
add_participant_save(r) ==
    /\ r.pc = "add_save"
    /\ participants' = r.snap
    /\ Step(r, [r EXCEPT !.pc = "session_unlock", !.snap = <<>>])
    /\ UNCHANGED <<grading, registry, paced, completion, quiz_ended, live, status, question_index, answer_lock, participants_lock,
                   session_lock, rate, recorded, ops>>

\* session_manager.py:141-143: delete the lock; live_multiplayer.py:151-161
add_participant_unlock(r) ==
    /\ r.pc = "session_unlock"
    /\ session_lock' = delete_key(session_lock)
    /\ IF r.res = "raised"
       THEN Step(r, [r EXCEPT !.pc = "session_except"])
       ELSE IF r.op = "join"
       THEN Step(r, [r EXCEPT !.pc = "join_state"])
       ELSE Step(r, Reply(r, "Successfully joined the session"))
    /\ UNCHANGED <<grading, registry, paced, completion, quiz_ended, live, status, participants, question_index, answer_lock,
                   participants_lock, rate, recorded, ops>>

\* websocket.py:219-252: re-read the session, branch on its status
join_state(r) ==
    /\ r.pc = "join_state"
    /\ IF status = "active"
       THEN Step(r, [r EXCEPT !.pc = "join_index"])
       ELSE Step(r, Reply(r, "session_state"))
    /\ UNCHANGED <<grading, registry, paced, completion, quiz_ended, live, status, participants, question_index, answer_lock,
                   participants_lock, session_lock, rate, recorded, ops>>

\* websocket.py:254-261: read the stored index of the joining user
join_index(r) ==
    /\ r.pc = "join_index"
    /\ IF question_index[r.user] = NoIndex /\ ~r.recon
       THEN Step(r, [r EXCEPT !.pc = "late_init"])
       ELSE Step(r, Reply(r, "question"))
    /\ UNCHANGED <<grading, registry, paced, completion, quiz_ended, live, status, participants, question_index, answer_lock,
                   participants_lock, session_lock, rate, recorded, ops>>

\* websocket.py:263-284: a late joiner starts from question 0
join_late_init(r) ==
    /\ r.pc = "late_init"
    /\ question_index' = [question_index EXCEPT ![r.user] = 0]
    /\ Step(r, Reply(r, "question"))
    /\ UNCHANGED <<grading, registry, paced, completion, quiz_ended, live, status, participants, answer_lock, participants_lock,
                   session_lock, rate, recorded, ops>>

\* session_manager.py:160-168: mark disconnected, read then write
remove_participant(u) ==
    /\ CanDispatch
    /\ ops' = ops + 1
    /\ LET b == Begin("remove_participant", u, "remove_save") IN
       IF u \in Keys(participants)
       THEN Start([b EXCEPT !.snap =
                Put(participants, u, [Get(participants, u) EXCEPT !.connected = FALSE])])
       ELSE Start(Reply(b, ""))
    /\ UNCHANGED <<grading, registry, paced, completion, quiz_ended, live, status, participants, question_index, answer_lock,
                   participants_lock, session_lock, rate, recorded>>

remove_participant_save(r) ==
    /\ r.pc = "remove_save"
    /\ participants' = r.snap
    /\ Step(r, Reply(r, ""))
    /\ UNCHANGED <<grading, registry, paced, completion, quiz_ended, live, status, question_index, answer_lock, participants_lock,
                   session_lock, rate, recorded, ops>>

\* ----------------------------------------------------------- start and end
\* websocket.py:343-393: the checks of the start_quiz frame
handle_start_quiz(u) ==
    /\ CanDispatch
    /\ ops' = ops + 1
    /\ LET b == Begin("start_quiz", u, "start_session") IN
       IF ~is_host(u) THEN Start(Reply(b, "Only host can start the quiz"))
       ELSE IF TotalQuestions = 0
       THEN Start(Reply(b, "Cannot start quiz: No questions found"))
       ELSE IF Len(participants) = 0
       THEN Start(Reply(b, "Cannot start quiz: No participants have joined"))
       ELSE IF status = "active" THEN Start(Reply(b, "Quiz has already started"))
       ELSE IF status = "completed" THEN Start(Reply(b, "Quiz has already ended"))
       ELSE Start(b)
    /\ UNCHANGED <<grading, registry, paced, completion, quiz_ended, live, status, participants, question_index, answer_lock,
                   participants_lock, session_lock, rate, recorded>>

\* session_manager.py:170-191 called from websocket.py:404
start_session(r) ==
    /\ r.pc = "start_session"
    /\ status' = "active"
    /\ Step(r, [r EXCEPT !.pc = "start_roster"])
    /\ UNCHANGED <<grading, registry, paced, completion, quiz_ended, live, participants, question_index, answer_lock, participants_lock,
                   session_lock, rate, recorded, ops>>

\* websocket.py:413-414: re-read the session, take the keys of the roster
start_roster(r) ==
    /\ r.pc = "start_roster"
    /\ Step(r, [r EXCEPT !.pc = "start_init",
                  !.todo = [i \in 1..Len(participants) |-> participants[i].user_id]])
    /\ UNCHANGED <<grading, registry, paced, completion, quiz_ended, live, status, participants, question_index, answer_lock,
                   participants_lock, session_lock, rate, recorded, ops>>

\* websocket.py:416-454: one set_participant_question_index per roster key,
\* then quiz_started and question 0 are broadcast and the timer of question 0
\* is created
start_init(r) ==
    /\ r.pc = "start_init"
    /\ IF r.todo = <<>>
       THEN /\ Step(r, Reply(r, "quiz_started"))
            /\ question_index' = question_index
            /\ timers' = timers \cup {0}
            /\ active_timers' = active_timers \cup {0}
       ELSE /\ question_index' = [question_index EXCEPT ![Head(r.todo)] = 0]
            /\ Step(r, [r EXCEPT !.todo = Tail(@)])
            /\ UNCHANGED <<timers, active_timers>>
    /\ UNCHANGED <<grading, registry, current_question_index, completion, quiz_ended, live, status,
                   participants, answer_lock, participants_lock, session_lock, rate,
                   recorded, ops>>

\* live_multiplayer.py:173-196: the REST start; host_id comes from the request body
start_quiz_session(claimed) ==
    /\ CanDispatch
    /\ ops' = ops + 1
    /\ LET b == Begin("start_quiz_session", claimed, "ret") IN
       IF claimed # host_id
       THEN /\ Start(Reply(b, "Only host can start"))
            /\ status' = status
       ELSE /\ Start(Reply(b, "Quiz started successfully"))
            /\ status' = "active"
    /\ UNCHANGED <<grading, registry, paced, completion, quiz_ended, live, participants, question_index, answer_lock, participants_lock,
                   session_lock, rate, recorded>>

\* websocket.py:731-755 with session_manager.py:193-196: the host's end_quiz
\* frame marks the session completed and broadcasts quiz_ended
handle_end_quiz(u) ==
    /\ CanDispatch
    /\ ops' = ops + 1
    /\ LET b == Begin("end_quiz", u, "ret") IN
       IF ~is_host(u)
       THEN /\ Start(Reply(b, "Only host can end the quiz"))
            /\ UNCHANGED <<status, quiz_ended>>
       ELSE /\ Start(Reply(b, "quiz_ended"))
            /\ status' = end_session
            /\ quiz_ended' = quiz_ended + 1
    /\ UNCHANGED <<grading, registry, paced, completion, live, participants, question_index, answer_lock,
                   participants_lock, session_lock, rate, recorded>>

\* live_multiplayer.py:199-220: the REST end; no frame is broadcast
end_quiz_session(claimed) ==
    /\ CanDispatch
    /\ ops' = ops + 1
    /\ LET b == Begin("end_quiz_session", claimed, "ret") IN
       IF claimed # host_id
       THEN /\ Start(Reply(b, "Only host can end"))
            /\ status' = status
       ELSE /\ Start(Reply(b, "Quiz session ended"))
            /\ status' = end_session
    /\ UNCHANGED <<grading, registry, paced, completion, quiz_ended, live, participants, question_index,
                   answer_lock, participants_lock, session_lock, rate, recorded>>

session_active_ignored(s) == TRUE

\* websocket.py:135: the advisory is sent for a session whose status is active
session_active(s) == s = "active"

\* connection_manager.py:47-72: disconnect(websocket, session_code, user_id)
\* deletes the entry of user_id from the bucket; the socket passed in is not
\* compared with the socket registered
disconnect(connections, u, ws) == [connections EXCEPT ![u] = NoChannel]

\* websocket.py:125-143: a channel of u closes.  The finally block drops the
\* user from the connection registry and, for the host of an active session,
\* broadcasts host_disconnected; it writes nothing to the session record
websocket_disconnect(u) ==
    /\ CanDispatch
    /\ ops' = ops + 1
    /\ LET b == Begin("disconnect", u, "ret") IN
       IF is_host(u) /\ session_active(status)
       THEN Start(Reply(b, "host_disconnected"))
       ELSE Start(Reply(b, ""))
    /\ IF \E e \in endpoints : e.user_id = u
       THEN \E e \in endpoints :
               /\ e.user_id = u
               /\ endpoints' = endpoints \ {e}
               /\ session_connections' = disconnect(session_connections, u, e.ws)
       ELSE /\ endpoints' = endpoints
            /\ session_connections' = disconnect(session_connections, u, NoChannel)
    /\ UNCHANGED <<grading, paced, completion, quiz_ended, live, status, participants,
                   question_index, answer_lock, participants_lock, session_lock,
                   rate, recorded>>

\* ---------------------------------------------------- request_next_question
\* websocket.py:576-607: the host is ignored; the session is read and a
\* completed one is answered with the final results
handle_request_next_question(u) ==
    /\ CanDispatch
    /\ ops' = ops + 1
    /\ LET b == Begin("request_next_question", u, "request_index") IN
       IF is_host(u) THEN Start(Reply(b, "ignored"))
       ELSE IF status = "completed"
       THEN Start(Reply(b, "This quiz has already ended."))
       ELSE Start(b)
    /\ UNCHANGED <<grading, registry, paced, completion, quiz_ended, live, status, participants,
                   question_index, answer_lock, participants_lock, session_lock,
                   rate, recorded>>

\* websocket.py:609-621, 646-657: read the player's index; below the total the
\* question at that index is sent
request_index(r) ==
    /\ r.pc = "request_index"
    /\ LET i == get_participant_question_index(r.user) IN
       IF TotalQuestions = 0 THEN Step(r, Reply(r, "Quiz not found"))
       ELSE IF i >= TotalQuestions
       THEN Step(r, [r EXCEPT !.pc = "completed_get", !.idx = i])
       ELSE Step(r, [Reply(r, "question") EXCEPT !.idx = i])
    /\ UNCHANGED <<grading, registry, paced, completion, quiz_ended, live, status, participants,
                   question_index, answer_lock, participants_lock, session_lock,
                   rate, recorded, ops>>

\* websocket.py:623-627, 635-644: read completed:<code>:<user>
request_completed_get(r) ==
    /\ r.pc = "completed_get"
    /\ IF completed[r.user]
       THEN Step(r, Reply(r, "You've completed all questions!"))
       ELSE Step(r, [r EXCEPT !.pc = "completed_set"])
    /\ UNCHANGED <<grading, registry, paced, completion, quiz_ended, live, status, participants,
                   question_index, answer_lock, participants_lock, session_lock,
                   rate, recorded, ops>>

\* websocket.py:629: set completed:<code>:<user>
request_completed_set(r) ==
    /\ r.pc = "completed_set"
    /\ completed' = [completed EXCEPT ![r.user] = TRUE]
    /\ Step(r, [r EXCEPT !.pc = "completion_lock"])
    /\ UNCHANGED <<grading, registry, paced, completion_lock, quiz_ended, live, status, participants,
                   question_index, answer_lock, participants_lock, session_lock,
                   rate, recorded, ops>>

\* websocket.py:675-680: SET completion_check:<code> NX, one attempt; a caller
\* that does not get the lock returns without checking
check_lock(r) ==
    /\ r.pc = "completion_lock"
    /\ IF set_nx(completion_lock)
       THEN /\ completion_lock' = r.user
            /\ Step(r, [r EXCEPT !.pc = "check_session"])
       ELSE /\ completion_lock' = completion_lock
            /\ Step(r, Reply(r, "You've completed all questions!"))
    /\ UNCHANGED <<grading, registry, paced, completed, quiz_ended, live, status, participants,
                   question_index, answer_lock, participants_lock, session_lock,
                   rate, recorded, ops>>

\* websocket.py:683-697: read the session; skip a completed session and an
\* empty roster, otherwise take the keys of the roster
check_session(r) ==
    /\ r.pc = "check_session"
    /\ IF status = "completed" \/ Len(participants) = 0
       THEN Step(r, [r EXCEPT !.pc = "completion_unlock"])
       ELSE Step(r, [r EXCEPT !.pc = "check_scan", !.all_completed = TRUE,
                       !.todo = [i \in 1..Len(participants) |-> participants[i].user_id]])
    /\ UNCHANGED <<grading, registry, paced, completion, quiz_ended, live, status, participants,
                   question_index, answer_lock, participants_lock, session_lock,
                   rate, recorded, ops>>

has_completed_any(participant_index) == TRUE

\* websocket.py:702: participant_index >= total_questions
has_completed(participant_index) == participant_index >= TotalQuestions

\* websocket.py:699-706: read the index of the next roster key; after the last
\* one branch on all_completed
check_scan(r) ==
    /\ r.pc = "check_scan"
    /\ LET all == r.all_completed
                  /\ has_completed(get_participant_question_index(Head(r.todo)))
           rest == Tail(r.todo) IN
       IF rest # <<>>
       THEN Step(r, [r EXCEPT !.todo = rest, !.all_completed = all])
       ELSE Step(r, [r EXCEPT !.todo = rest, !.all_completed = all,
                       !.pc = IF all THEN "check_end" ELSE "completion_unlock"])
    /\ UNCHANGED <<grading, registry, paced, completion, quiz_ended, live, status, participants,
                   question_index, answer_lock, participants_lock, session_lock,
                   rate, recorded, ops>>

\* websocket.py:709-722: mark the session completed and broadcast quiz_ended
check_end(r) ==
    /\ r.pc = "check_end"
    /\ status' = end_session
    /\ quiz_ended' = quiz_ended + 1
    /\ Step(r, [r EXCEPT !.pc = "completion_unlock"])
    /\ UNCHANGED <<grading, registry, paced, completion, live, participants, question_index,
                   answer_lock, participants_lock, session_lock, rate, recorded, ops>>

\* websocket.py:723-725 and 635-644: delete the lock, answer the participant
check_unlock(r) ==
    /\ r.pc = "completion_unlock"
    /\ completion_lock' = delete_key(completion_lock)
    /\ Step(r, Reply(r, "You've completed all questions!"))
    /\ UNCHANGED <<grading, registry, paced, completed, quiz_ended, live, status, participants,
                   question_index, answer_lock, participants_lock, session_lock,
                   rate, recorded, ops>>

\* ------------------------------------------- next_question and auto-advance
\* the asyncio task of a timer is no user's frame
server == "server"

\* websocket.py:534-543: the next_question frame
handle_next_question(u) ==
    /\ CanDispatch
    /\ ops' = ops + 1
    /\ LET b == Begin("next_question", u, "next_cancel") IN
       IF ~is_host(u) THEN Start(Reply(b, "Only host can control questions"))
       ELSE Start(b)
    /\ UNCHANGED <<grading, registry, paced, completion, quiz_ended, live, status, participants,
                   question_index, answer_lock, participants_lock, session_lock,
                   rate, recorded>>

\* the timer coroutines of question i that have woken and not yet returned
Running(i) ==
    {c \in BagToSet(task) : c.op = "auto_advance" /\ c.idx = i /\ c.pc # "ret"}

\* websocket.py:545-552: read current_question_index and cancel the task kept
\* under its key.  A task that is still asleep never wakes.  A task that has
\* woken is suspended in a store call: it gets no further, and the store call
\* it was waiting for has been carried out (sent) or not
next_cancel(r) ==
    /\ r.pc = "next_cancel"
    /\ LET i == current_question_index
           n == [r EXCEPT !.pc = "next_question"] IN
       IF i \notin active_timers
       THEN /\ Step(r, n)
            /\ UNCHANGED <<timers, active_timers, current_question_index, status>>
       ELSE /\ active_timers' = active_timers \ {i}
            /\ timers' = timers \ {i}
            /\ IF i \in timers
               THEN /\ Step(r, n)
                    /\ UNCHANGED <<current_question_index, status>>
               ELSE \E sent \in BOOLEAN :
                      LET cancelled == Running(i)
                          kept == [c \in BagToSet(task) \ cancelled |-> CopiesIn(c, task)]
                      IN /\ task' = (kept (-) SetToBag({r})) (+) SetToBag({n})
                         /\ current_question_index' =
                               IF sent /\ \E c \in cancelled : c.pc = "next_question"
                               THEN current_question_index + 1
                               ELSE current_question_index
                         /\ status' =
                               IF sent /\ \E c \in cancelled : c.pc = "next_end"
                               THEN end_session ELSE status
    /\ UNCHANGED <<grading, registry, completion, quiz_ended, live,
                   participants, question_index, answer_lock, participants_lock,
                   session_lock, rate, recorded, ops>>

\* websocket.py:289-305: a timer wakes, reads the status and returns unless
\* the session is active
auto_advance_question(i) ==
    /\ i \in timers
    /\ BagCardinality(task) < MaxTasks
    /\ timers' = timers \ {i}
    /\ LET b == [Begin("auto_advance", server, "auto_index") EXCEPT !.idx = i] IN
       IF ~session_active(status) THEN Start(Reply(b, "")) ELSE Start(b)
    /\ UNCHANGED <<grading, registry, current_question_index, active_timers, completion, quiz_ended,
                   live, status, participants, question_index, answer_lock,
                   participants_lock, session_lock, rate, recorded, ops>>

same_question_any(current_index, question_index_of_timer) == TRUE

\* websocket.py:301: int(current_index) != question_index
same_question(current_index, question_index_of_timer) ==
    current_index = question_index_of_timer

\* websocket.py:298-302: return unless the session is still on the timer's question
auto_advance_index(r) ==
    /\ r.pc = "auto_index"
    /\ IF ~same_question(current_question_index, r.idx)
       THEN Step(r, Reply(r, ""))
       ELSE Step(r, [r EXCEPT !.pc = "next_question"])
    /\ UNCHANGED <<grading, registry, paced, completion, quiz_ended, live, status, participants,
                   question_index, answer_lock, participants_lock, session_lock,
                   rate, recorded, ops>>

\* an advance that moves every player to the question it broadcasts
next_question_shifts_players(r) ==
    /\ r.pc = "next_question"
    /\ current_question_index' = current_question_index + 1
    /\ question_index' = [u \in Users |->
                            IF u \in Keys(participants)
                            THEN current_question_index + 1 ELSE question_index[u]]
    /\ Step(r, [r EXCEPT !.pc = "get_current_question"])
    /\ UNCHANGED <<grading, registry, timers, active_timers, completion, quiz_ended, live, status,
                   participants, answer_lock, participants_lock, session_lock, rate,
                   recorded, ops>>

\* game_controller.py:420-428: hincrby current_question_index 1
next_question(r) ==
    /\ r.pc = "next_question"
    /\ current_question_index' = current_question_index + 1
    /\ Step(r, [r EXCEPT !.pc = "get_current_question"])
    /\ UNCHANGED <<grading, registry, timers, active_timers, completion, quiz_ended, live, status,
                   participants, question_index, answer_lock, participants_lock,
                   session_lock, rate, recorded, ops>>

\* game_controller.py:431 with websocket.py:557-573 and 310-322: read the
\* current index; a question there is broadcast and gets a timer (keyed by the
\* index read for next_question, by the timer's own index plus one for a
\* timer), no question there ends the quiz
get_current_question(r) ==
    /\ r.pc = "get_current_question"
    /\ IF current_question_index < TotalQuestions
       THEN LET next_index == IF r.op = "next_question"
                              THEN current_question_index ELSE r.idx + 1 IN
            /\ timers' = timers \cup {next_index}
            /\ active_timers' = active_timers \cup {next_index}
            /\ Step(r, Reply(r, "question"))
       ELSE /\ UNCHANGED <<timers, active_timers>>
            /\ Step(r, [r EXCEPT !.pc = "next_end"])
    /\ UNCHANGED <<grading, registry, current_question_index, completion, quiz_ended, live, status,
                   participants, question_index, answer_lock, participants_lock,
                   session_lock, rate, recorded, ops>>

\* websocket.py:573 with 731-755, and 323-338: end_session, quiz_ended broadcast
next_end(r) ==
    /\ r.pc = "next_end"
    /\ status' = end_session
    /\ quiz_ended' = quiz_ended + 1
    /\ Step(r, Reply(r, "quiz_ended"))
    /\ UNCHANGED <<grading, registry, paced, completion, live, participants, question_index,
                   answer_lock, participants_lock, session_lock, rate, recorded, ops>>

\* ----------------------------------------------------------- create_session
\* live_multiplayer.py:29-47: POST /create-session with host_id h
create_live_session(h) ==
    /\ CanDispatch
    /\ ops' = ops + 1
    /\ Start(Begin("create_session", h, "generate_code"))
    /\ UNCHANGED <<grading, registry, paced, completion, quiz_ended, live, status, participants,
                   question_index, answer_lock, participants_lock, session_lock,
                   rate, recorded>>

\* session_manager.py:53-59: draw a code c, return it when no session:<c> key
\* exists, draw again otherwise
generate_unique_code(r, c) ==
    /\ r.pc = "generate_code"
    /\ IF live[c] = NoLock
       THEN Step(r, [r EXCEPT !.pc = "find_quiz", !.res = c])
       ELSE UNCHANGED task
    /\ UNCHANGED <<grading, registry, paced, completion, quiz_ended, live, status, participants,
                   question_index, answer_lock, participants_lock, session_lock,
                   rate, recorded, ops>>

\* session_manager.py:27-29: the quiz is fetched from the database
create_session_find_quiz(r) ==
    /\ r.pc = "find_quiz"
    /\ Step(r, [r EXCEPT !.pc = "create_hset"])
    /\ UNCHANGED <<grading, registry, paced, completion, quiz_ended, live, status, participants,
                   question_index, answer_lock, participants_lock, session_lock,
                   rate, recorded, ops>>

\* session_manager.py:32-51: hset of the whole record under session:<code>;
\* the fields of a record already there are overwritten
create_session_hset(r) ==
    /\ r.pc = "create_hset"
    /\ live' = [live EXCEPT ![r.res] = r.user]
    /\ IF r.res = session_code
       THEN /\ status' = "waiting"
            /\ participants' = <<>>
            /\ current_question_index' = 0
       ELSE UNCHANGED <<status, participants, current_question_index>>
    /\ Step(r, Reply(r, r.res))
    /\ UNCHANGED <<grading, registry, timers, active_timers, completion, quiz_ended, question_index,
                   answer_lock, participants_lock, session_lock, rate, recorded, ops>>

\* --------------------------------------------------------- store exceptions
\* game_controller.py:117-146: the hset of the participants object (347) raises
\* inside the participants critical section; the inner finally runs first
\* (352-354), then the finally of submit_answer (134-136), then its except
\* clause (138-146)
submit_answer_raises(r) ==
    /\ r.op = "submit_answer"
    /\ r.pc = "save"
    /\ Step(r, [r EXCEPT !.res = "raised", !.snap = <<>>, !.pc = "participants_unlock"])
    /\ UNCHANGED <<grading, registry, paced, completion, quiz_ended, live, status, participants,
                   question_index, answer_lock, participants_lock, session_lock,
                   rate, recorded, ops>>

\* game_controller.py:138-146: the except clause deletes the answer lock once
\* more, then gives up on the last attempt or starts the next one.  The
\* attempts are counted in tries
submit_answer_except(r) ==
    /\ r.pc = "except_unlock"
    /\ answer_lock' = [answer_lock EXCEPT ![r.user] = delete_key(@)]
    /\ IF r.tries + 1 >= MaxRetries
       THEN Step(r, Reply(r, "Failed to process answer, please try again"))
       ELSE Step(r, [r EXCEPT !.pc = "answer_lock", !.res = "", !.attempt = 0,
                               !.tries = @ + 1])
    /\ UNCHANGED <<grading, registry, paced, completion, quiz_ended, live, status, participants,
                   question_index, participants_lock, session_lock, rate, recorded, ops>>

\* session_manager.py:94-155: the hset of add_participant (137) raises; the
\* finally runs first (141-143), then the except clause (145-155)
add_participant_raises(r) ==
    /\ r.op \in {"join", "join_session"}
    /\ r.pc = "add_save"
    /\ Step(r, [r EXCEPT !.res = "raised", !.snap = <<>>, !.pc = "session_unlock"])
    /\ UNCHANGED <<grading, registry, paced, completion, quiz_ended, live, status, participants,
                   question_index, answer_lock, participants_lock, session_lock,
                   rate, recorded, ops>>

\* session_manager.py:145-155: delete the admission lock once more, then
\* return False on the last attempt or start the next one
add_participant_except(r) ==
    /\ r.pc = "session_except"
    /\ session_lock' = delete_key(session_lock)
    /\ IF r.tries + 1 >= MaxRetries
       THEN Step(r, Reply(r, IF r.op = "join" THEN "join failed"
                                   ELSE "Failed to join session"))
       ELSE Step(r, [r EXCEPT !.pc = "session_lock", !.res = "", !.attempt = 0,
                               !.tries = @ + 1])
    /\ UNCHANGED <<grading, registry, paced, completion, quiz_ended, live, status, participants,
                   question_index, answer_lock, participants_lock, rate, recorded, ops>>

\* websocket.py:682-728: a read of a player's index (700) raises while the
\* completion lock is held; the finally deletes the lock, the except clause logs
check_raises(r) ==
    /\ r.pc = "check_scan"
    /\ Step(r, [r EXCEPT !.pc = "completion_unlock", !.todo = <<>>,
                            !.all_completed = FALSE])
    /\ UNCHANGED <<grading, registry, paced, completion, quiz_ended, live, status, participants,
                   question_index, answer_lock, participants_lock, session_lock,
                   rate, recorded, ops>>

\* ------------------------------------------------------- request_leaderboard
\* list.sort(key=score, reverse=True): a stable sort, entries of equal score
\* keep the order they had
RECURSIVE sort_by_score(_)
sort_by_score(entries) ==
    IF entries = <<>> THEN <<>>
    ELSE LET sorted == sort_by_score(SubSeq(entries, 1, Len(entries) - 1))
             e == entries[Len(entries)]
             k == Cardinality({i \in 1..Len(sorted) : sorted[i].score >= e.score})
         IN SubSeq(sorted, 1, k) \o <<e>> \o SubSeq(sorted, k + 1, Len(sorted))

\* websocket.py:773-790: one entry per participant, in the order of the
\* participants object
leaderboard_entries(ps) ==
    [i \in 1..Len(ps) |-> [user_id |-> ps[i].user_id, score |-> ps[i].score,
                           answered_count |-> Len(ps[i].answers),
                           connected |-> ps[i].connected]]

\* websocket.py:758-806: the session is read once, the entries are built,
\* sorted by score and sent to the caller
handle_request_leaderboard(u) ==
    /\ CanDispatch
    /\ ops' = ops + 1
    /\ LET b == Begin("request_leaderboard", u, "ret") IN
       Start([Reply(b, "leaderboard_response")
                EXCEPT !.snap = sort_by_score(leaderboard_entries(participants))])
    /\ UNCHANGED <<grading, registry, paced, completion, quiz_ended, live, status, participants,
                   question_index, answer_lock, participants_lock, session_lock,
                   rate, recorded>>

\* ------------------------------------------------------- connection registry
\* websocket.py:54-65 with connection_manager.py:22-45: a socket of u is
\* accepted and registered; the entry of a socket registered before for u is
\* replaced, and that socket stays open until its own read loop ends
websocket_connect(u, ws) ==
    /\ ops < MaxOps
    /\ ops' = ops + 1
    /\ [user_id |-> u, ws |-> ws] \notin endpoints
    /\ endpoints' = endpoints \cup {[user_id |-> u, ws |-> ws]}
    /\ session_connections' = [session_connections EXCEPT ![u] = ws]
    /\ UNCHANGED <<grading, paced, completion, quiz_ended, live, status, participants,
                   question_index, answer_lock, participants_lock, session_lock,
                   rate, task, recorded>>

\* the entries of the bucket
Bucket(connections) ==
    {[user_id |-> u, ws |-> connections[u]] : u \in {v \in Users : connections[v] # NoChannel}}

\* the sends of a broadcast that have not come back
Pending(r) ==
    {e \in r.connections : e \notin r.delivered /\ e.user_id \notin r.dead_users}

\* connection_manager.py:107-116: broadcast_to_session takes a snapshot of the
\* bucket and returns at once when it is empty
broadcast_to_session ==
    /\ CanDispatch
    /\ ops' = ops + 1
    /\ LET b == Begin("broadcast", server, "gather") IN
       IF Bucket(session_connections) = {}
       THEN Start(Reply(b, ""))
       ELSE Start([b EXCEPT !.connections = Bucket(session_connections)])
    /\ UNCHANGED <<grading, registry, paced, completion, quiz_ended, live, status,
                   participants, question_index, answer_lock, participants_lock,
                   session_lock, rate, recorded>>

\* connection_manager.py:74-84, 120-129: one of the gathered sends comes back.
\* A send to a socket whose endpoint has ended fails; a send to an open socket
\* succeeds or runs into the 5 s timeout
send_to_user(r, e, success) ==
    /\ r.pc = "gather"
    /\ e \in Pending(r)
    /\ success => e \in endpoints
    /\ IF success
       THEN Step(r, [r EXCEPT !.delivered = @ \cup {e}])
       ELSE Step(r, [r EXCEPT !.dead_users = @ \cup {e.user_id}])
    /\ UNCHANGED <<grading, registry, paced, completion, quiz_ended, live, status,
                   participants, question_index, answer_lock, participants_lock,
                   session_lock, rate, recorded, ops>>

\* connection_manager.py:131-139: after the gather, the entries of the users
\* whose send failed are deleted from the bucket
broadcast_cleanup(r) ==
    /\ r.pc = "gather"
    /\ Pending(r) = {}
    /\ session_connections' =
          [u \in Users |-> IF u \in r.dead_users THEN NoChannel
                           ELSE session_connections[u]]
    /\ endpoints' = endpoints
    /\ Step(r, [r EXCEPT !.pc = "ret", !.res = "sent"])
    /\ UNCHANGED <<grading, paced, completion, quiz_ended, live, status,
                   participants, question_index, answer_lock, participants_lock,
                   session_lock, rate, recorded, ops>>

\* ---------------------------------------------------------- process_answer
\* game_controller.py:196-290: _process_answer_internal grades the answer it
\* was given before it takes the participants lock
process_answer_points ==
    /\ ~grading.graded
    /\ LET result == calculate_points(grading.question, grading.answer, grading.timestamp)
       IN grading' = [grading EXCEPT !.graded = TRUE,
                                     !.is_correct = result.is_correct,
                                     !.points = result.points]
    /\ UNCHANGED <<registry, paced, completion, quiz_ended, live, status, participants,
                   question_index, answer_lock, participants_lock, session_lock,
                   rate, task, recorded, ops>>

\* ---------------------------------------------------------- specifications
SubmitSteps ==
    \/ \E u \in Users, a \in Answers, ts \in ClientTimestamps,
          to \in BOOLEAN, ex \in BOOLEAN :
            handle_submit_answer(u, a, ts, to, ex)
    \/ \E r \in BagToSet(task) : submit_rate_set(r)
    \/ \E r \in BagToSet(task) : submit_answer_lock(r)
    \/ \E r \in BagToSet(task) : process_get_index(r)
    \/ \E r \in BagToSet(task) : process_participants_lock(r)
    \/ \E r \in BagToSet(task) : process_read(r)
    \/ \E r \in BagToSet(task) : process_save(r)
    \/ \E r \in BagToSet(task) : process_participants_unlock(r)
    \/ \E r \in BagToSet(task) : process_advance(r)
    \/ \E r \in BagToSet(task) : submit_answer_unlock(r)

\* websocket.py:88-89 and live_multiplayer.py:128: joins
JoinSteps ==
    \/ \E u \in Users : handle_join(u)
    \/ \E u \in Users : join_session(u)
    \/ \E r \in BagToSet(task) : add_participant_lock(r)
    \/ \E r \in BagToSet(task) : add_participant_read(r)
    \/ \E r \in BagToSet(task) : add_participant_save(r)
    \/ \E r \in BagToSet(task) : add_participant_unlock(r)
    \/ \E r \in BagToSet(task) : join_state(r)
    \/ \E r \in BagToSet(task) : join_index(r)
    \/ \E r \in BagToSet(task) : join_late_init(r)

\* websocket.py:91-92 and live_multiplayer.py:173: starts
StartSteps ==
    \/ \E u \in Users : handle_start_quiz(u)
    \/ \E r \in BagToSet(task) : start_session(r)
    \/ \E r \in BagToSet(task) : start_roster(r)
    \/ \E r \in BagToSet(task) : start_init(r)
    \/ \E u \in Users : start_quiz_session(u)

\* websocket.py:107-108 and live_multiplayer.py:199: ends
EndSteps ==
    \/ \E u \in Users : handle_end_quiz(u)
    \/ \E u \in Users : end_quiz_session(u)

GatewaySteps == JoinSteps \/ StartSteps \/ EndSteps

\* a handler that has answered returns before another coroutine is resumed:
\* there is no store round trip between its last one and its return
Returning == \E r \in BagToSet(task) : r.pc = "ret"

Returns == \E r \in BagToSet(task) : Return(r)

\* every frame and REST request of the gateway
Next ==
    \/ ~Returning /\ SubmitSteps
    \/ ~Returning /\ GatewaySteps
    \/ Returns

Spec == Init /\ [][Next]_vars

\* the gateway together with SessionManager.remove_participant
RemoveSteps ==
    \/ \E u \in Users : remove_participant(u)
    \/ \E r \in BagToSet(task) : remove_participant_save(r)

NextApi == Next \/ (~Returning /\ RemoveSteps)

SpecApi == Init /\ [][NextApi]_vars

\* the lobby after the first player's join has completed
InitLobby ==
    /\ status = "waiting"
    /\ participants = <<new_participant("u1")>>
    /\ question_index = [u \in Users |-> NoIndex]
    /\ answer_lock = [u \in Users |-> NoLock]
    /\ participants_lock = NoLock
    /\ session_lock = NoLock
    /\ rate = [u \in Users |-> FALSE]
    /\ task = EmptyBag
    /\ recorded = {}
    /\ ops = 0
    /\ InitGateway

\* submissions, joins and starts
NextLobby ==
    \/ ~Returning /\ SubmitSteps
    \/ ~Returning /\ JoinSteps
    \/ ~Returning /\ StartSteps
    \/ Returns

SpecLobby == InitLobby /\ [][NextLobby]_vars

\* the started quiz: both players joined, start_quiz has set their indices and
\* created the timer of question 0, and from here on only submit_answer frames
\* arrive
InitSubmit ==
    /\ status = "active"
    /\ participants = <<new_participant("u1"), new_participant("u2")>>
    /\ question_index = [u \in Users |-> IF u \in Players THEN 0 ELSE NoIndex]
    /\ answer_lock = [u \in Users |-> NoLock]
    /\ participants_lock = NoLock
    /\ session_lock = NoLock
    /\ rate = [u \in Users |-> FALSE]
    /\ task = EmptyBag
    /\ recorded = {}
    /\ ops = 0
    /\ current_question_index = 0
    /\ timers = {0}
    /\ active_timers = {0}
    /\ completed = [u \in Users |-> FALSE]
    /\ completion_lock = NoLock
    /\ quiz_ended = 0
    /\ live = [c \in Codes |-> IF c = session_code THEN host_id ELSE NoLock]
    /\ grading = NoGrading
    /\ NoConnections

NextSubmit ==
    \/ ~Returning /\ SubmitSteps
    \/ Returns

SpecSubmit == InitSubmit /\ [][NextSubmit]_vars

\* the started quiz with submissions and ends, from the WebSocket and over REST
NextEnd ==
    \/ ~Returning /\ SubmitSteps
    \/ ~Returning /\ EndSteps
    \/ Returns

SpecEnd == InitSubmit /\ [][NextEnd]_vars

\* channels that join, close and join again, before and after the start
NextReconnect ==
    \/ ~Returning /\ JoinSteps
    \/ ~Returning /\ StartSteps
    \/ ~Returning /\ (\E u \in Users : websocket_disconnect(u))
    \/ Returns

SpecReconnect == Init /\ [][NextReconnect]_vars

\* concurrent POST /create-session requests beside the session under study
CreateSteps ==
    \/ \E h \in Users : create_live_session(h)
    \/ \E r \in BagToSet(task), c \in Codes : generate_unique_code(r, c)
    \/ \E r \in BagToSet(task) : create_session_find_quiz(r)
    \/ \E r \in BagToSet(task) : create_session_hset(r)

NextCreate ==
    \/ ~Returning /\ CreateSteps
    \/ Returns

SpecCreate == Init /\ [][NextCreate]_vars

\* the record of a participant who has answered the first n questions in time
RECURSIVE answered(_, _)
answered(u, n) ==
    IF n = 0 THEN new_participant(u)
    ELSE record_answer(answered(u, n - 1), n - 1, points_for("right", 0))

\* websocket.py:104-105: the self-paced requests of the participants
RequestSteps ==
    \/ \E u \in Users : handle_request_next_question(u)
    \/ \E r \in BagToSet(task) : request_index(r)
    \/ \E r \in BagToSet(task) : request_completed_get(r)
    \/ \E r \in BagToSet(task) : request_completed_set(r)
    \/ \E r \in BagToSet(task) : check_lock(r)
    \/ \E r \in BagToSet(task) : check_session(r)
    \/ \E r \in BagToSet(task) : check_scan(r)
    \/ \E r \in BagToSet(task) : check_end(r)
    \/ \E r \in BagToSet(task) : check_unlock(r)

\* the started quiz in which u1 has answered every question and u2 the first
\* n; ts holds the timer of question 0 after a start_quiz frame
\* (websocket.py:450-454) and nothing after a REST start
\* (live_multiplayer.py:173-196), which creates no timer
InitPaced(n, ts) ==
    /\ status = "active"
    /\ participants = <<answered("u1", TotalQuestions), answered("u2", n)>>
    /\ question_index = [u \in Users |-> CASE u = "u1" -> TotalQuestions
                                          [] u = "u2" -> n
                                          [] OTHER -> NoIndex]
    /\ answer_lock = [u \in Users |-> NoLock]
    /\ participants_lock = NoLock
    /\ session_lock = NoLock
    /\ rate = [u \in Users |-> FALSE]
    /\ task = EmptyBag
    /\ recorded = {[user_id |-> "u1", question_index |-> i,
                     points_earned |-> points_for("right", 0)] :
                       i \in 0..(TotalQuestions - 1)}
                   \cup {[user_id |-> "u2", question_index |-> i,
                           points_earned |-> points_for("right", 0)] :
                             i \in 0..(n - 1)}
    /\ ops = 0
    /\ current_question_index = 0
    /\ timers = ts
    /\ active_timers = ts
    /\ completed = [u \in Users |-> FALSE]
    /\ completion_lock = NoLock
    /\ quiz_ended = 0
    /\ live = [c \in Codes |-> IF c = session_code THEN host_id ELSE NoLock]
    /\ grading = NoGrading
    /\ NoConnections

\* the self-paced quiz near its end, started by a start_quiz frame or over
\* REST: u2 has its last question left
InitSelfPaced == \E ts \in {{}, {0}} : InitPaced(TotalQuestions - 1, ts)

\* both participants have answered every question
InitFinished == InitPaced(TotalQuestions, {0})

\* websocket.py:289-340: the auto-advance timers
TimerSteps ==
    \/ \E i \in timers : auto_advance_question(i)
    \/ \E r \in BagToSet(task) : auto_advance_index(r)
    \/ \E r \in BagToSet(task) : next_question(r)
    \/ \E r \in BagToSet(task) : get_current_question(r)
    \/ \E r \in BagToSet(task) : next_end(r)

\* the participants' submissions and requests, and the timers
NextSelfPaced ==
    \/ ~Returning /\ SubmitSteps
    \/ ~Returning /\ RequestSteps
    \/ ~Returning /\ TimerSteps
    \/ Returns

SpecSelfPaced == InitSelfPaced /\ [][NextSelfPaced]_vars

\* a handler in flight is resumed by the event loop and a sleeping timer wakes:
\* its next step is taken.  The arrival of a frame (the steps that count in
\* ops) is not forced.
FairSelfPaced == SpecSelfPaced /\ WF_vars(NextSelfPaced /\ ops' = ops)

\* the senders of control frames: the host and one participant
Controllers == {host_id, "u1"}

\* websocket.py:101-102 and the timers of websocket.py:289-340
PacingSteps ==
    \/ \E u \in Controllers : handle_next_question(u)
    \/ \E r \in BagToSet(task) : next_cancel(r)
    \/ \E i \in timers : auto_advance_question(i)
    \/ \E r \in BagToSet(task) : auto_advance_index(r)
    \/ \E r \in BagToSet(task) : next_question(r)
    \/ \E r \in BagToSet(task) : get_current_question(r)
    \/ \E r \in BagToSet(task) : next_end(r)

\* the frames and requests that are refused or carried out at once in a
\* started session: start_quiz, the REST start, end_quiz, the REST end
ControlSteps ==
    \/ \E u \in Controllers : handle_start_quiz(u)
    \/ \E u \in Controllers : start_quiz_session(u)
    \/ \E u \in Controllers : handle_end_quiz(u)
    \/ \E u \in Controllers : end_quiz_session(u)

\* the started session with the host's controls, the timers and the
\* participants' requests
NextControl ==
    \/ ~Returning /\ ControlSteps
    \/ ~Returning /\ PacingSteps
    \/ ~Returning /\ RequestSteps
    \/ Returns

SpecControl == InitFinished /\ [][NextControl]_vars

\* a store call raises in a handler that takes locks
FaultSteps ==
    \/ \E r \in BagToSet(task) : submit_answer_raises(r)
    \/ \E r \in BagToSet(task) : submit_answer_except(r)
    \/ \E r \in BagToSet(task) : add_participant_raises(r)
    \/ \E r \in BagToSet(task) : add_participant_except(r)
    \/ \E r \in BagToSet(task) : check_raises(r)

\* the handlers that take locks, for frames of participants: an answer in
\* time, a join of the roster member u1, a request for the next question
LockingSteps ==
    \/ \E u \in Players : handle_submit_answer(u, "right", 0, FALSE, FALSE)
    \/ \E r \in BagToSet(task) : submit_rate_set(r)
    \/ \E r \in BagToSet(task) : submit_answer_lock(r)
    \/ \E r \in BagToSet(task) : process_get_index(r)
    \/ \E r \in BagToSet(task) : process_participants_lock(r)
    \/ \E r \in BagToSet(task) : process_read(r)
    \/ \E r \in BagToSet(task) : process_save(r)
    \/ \E r \in BagToSet(task) : process_participants_unlock(r)
    \/ \E r \in BagToSet(task) : process_advance(r)
    \/ \E r \in BagToSet(task) : submit_answer_unlock(r)
    \/ handle_join("u1")
    \/ \E r \in BagToSet(task) : add_participant_lock(r)
    \/ \E r \in BagToSet(task) : add_participant_read(r)
    \/ \E r \in BagToSet(task) : add_participant_save(r)
    \/ \E r \in BagToSet(task) : add_participant_unlock(r)
    \/ \E r \in BagToSet(task) : join_state(r)
    \/ \E r \in BagToSet(task) : join_index(r)
    \/ \E u \in Players : handle_request_next_question(u)
    \/ \E r \in BagToSet(task) : request_index(r)
    \/ \E r \in BagToSet(task) : request_completed_get(r)
    \/ \E r \in BagToSet(task) : request_completed_set(r)
    \/ \E r \in BagToSet(task) : check_lock(r)
    \/ \E r \in BagToSet(task) : check_session(r)
    \/ \E r \in BagToSet(task) : check_scan(r)
    \/ \E r \in BagToSet(task) : check_end(r)
    \/ \E r \in BagToSet(task) : check_unlock(r)

\* the handlers that take locks, in a started session, with store exceptions
NextLocks ==
    \/ ~Returning /\ LockingSteps
    \/ ~Returning /\ FaultSteps
    \/ Returns

SpecLocks == InitPaced(TotalQuestions - 1, {}) /\ [][NextLocks]_vars

\* ------------------------------------------------------------------ claims
Frames == BagToSet(task)

\* the number of frames in flight among the frames S
InFlight(S) == BagCardinality([r \in S |-> CopiesIn(r, task)])

Submitting(u) == \E r \in Frames : r.op = "submit_answer" /\ r.user = u

\* the frame has saved its answer
Saved(r) ==
    /\ r.op = "submit_answer"
    /\ r.pc \in {"participants_unlock", "advance", "answer_unlock", "ret"}
    /\ r.res \in {"", "ok"}

IndexOf(q, u) == IF q[u] = NoIndex THEN 0 ELSE q[u]

\* C1: in every reachable state every participant's answers hold at most one
\* entry for any question_index
C1_OneAnswerPerQuestion ==
    \A i \in 1..Len(participants) :
        LET a == participants[i].answers IN
        \A j, k \in 1..Len(a) : j # k => a[j].question_index # a[k].question_index

\* C1 witness: two submit_answer frames of one player are in flight together
\* and that player already has an answer stored
C1_Witness ==
    \E u \in Players :
        /\ u \in Keys(participants)
        /\ Len(Get(participants, u).answers) >= 1
        /\ InFlight({r \in Frames : r.op = "submit_answer" /\ r.user = u
                                        /\ r.pc # "ret"}) >= 2

\* C2: in every reachable state each participant's score is the sum of
\* points_earned over that participant's answers
C2_ScoreIsSumOfPoints ==
    \A i \in 1..Len(participants) :
        participants[i].score = SumPoints(participants[i].answers)

\* C2 witness: a participant with two answers stored and a positive score
C2_Witness ==
    \E i \in 1..Len(participants) :
        Len(participants[i].answers) = 2 /\ participants[i].score > 0

\* C3: whenever no submit_answer of p is in progress, p's question index is
\* len(p.answers) and p.answers holds exactly the indices below it
C3_IndexIsAnswerCount ==
    \A i \in 1..Len(participants) :
        LET p == participants[i]
            n == IndexOf(question_index, p.user_id) IN
        ~Submitting(p.user_id) =>
            /\ n = Len(p.answers)
            /\ Indices(p.answers) = 0..(n - 1)

\* C4: a participant's question index never decreases, and every change of it
\* is an increase by one made by submit_answer advancing that participant
C4_IndexAdvancesByOne ==
    [][\A u \in Users :
          IndexOf(question_index', u) # IndexOf(question_index, u) =>
              /\ IndexOf(question_index', u) = IndexOf(question_index, u) + 1
              /\ \E r \in Frames : r.user = u /\ process_advance(r)]_vars

\* the scores, answers and roster of the participants object
Ledger(ps) == [i \in 1..Len(ps) |-> <<ps[i].user_id, ps[i].score, ps[i].answers>>]

\* C5: once the status is completed, no operation that arrives afterwards
\* changes a score, an answers list or the roster
C5_FrozenAfterCompleted ==
    [][(status = "completed" /\ Ledger(participants') # Ledger(participants)) =>
          \E r \in Frames :
              /\ ~r.late
              /\ process_save(r) \/ add_participant_save(r) \/ remove_participant_save(r)]_vars

Rank(st) == CASE st = "waiting" -> 0 [] st = "active" -> 1 [] st = "completed" -> 2

\* C6: the status only moves forward in the order waiting, active, completed
C6_StatusMonotonic == [][Rank(status') >= Rank(status)]_vars

\* C7: no step lowers the score of a participant
C7_ScoreNeverDecreases ==
    [][\A u \in Keys(participants) :
          u \in Keys(participants') =>
              Get(participants', u).score >= Get(participants, u).score]_vars

\* C8: the host is never a key of the participants object, and a submit_answer
\* of the host is rejected and records nothing
C8_HostIsNoParticipant ==
    /\ host_id \notin Keys(participants)
    /\ \A a \in recorded : a.user_id # host_id
    /\ \A r \in Frames :
          (r.op = "submit_answer" /\ r.user = host_id) =>
              r.pc = "ret" /\ r.res = "Host cannot participate in quiz"

\* C8 witness: the host's submit_answer has been rejected in a session that
\* has a participant
C8_Witness ==
    /\ Len(participants) >= 1
    /\ \E r \in Frames : r.op = "submit_answer" /\ r.user = host_id /\ r.pc = "ret"

\* C9: with only submit_answer frames arriving, every answer that a submission
\* saved stays in the stored object with its points in the score
C9_NoSubmissionOverwritten ==
    \A a \in recorded :
        /\ a.user_id \in Keys(participants)
        /\ LET p == Get(participants, a.user_id) IN
           /\ \E k \in 1..Len(p.answers) :
                  /\ p.answers[k].question_index = a.question_index
                  /\ p.answers[k].points_earned = a.points_earned
           /\ p.score = SumPoints(p.answers)

\* C9 witness: submissions of the two players are in flight together and both
\* have saved an answer
C9_Witness ==
    \E r1, r2 \in Frames :
        /\ r1.user = "u1" /\ r2.user = "u2"
        /\ Saved(r1) /\ Saved(r2)
        /\ r1.pc # "ret" /\ r2.pc # "ret"

\* a frame between its read of the participants field and its write back
InReadModifyWrite(r) == r.pc \in {"save", "add_save", "remove_save"}

\* C10: no two read-modify-write sequences on the participants field overlap
C10_WritersExcluded == InFlight({r \in Frames : InReadModifyWrite(r)}) <= 1

\* C11: a participant record, once in the participants object, is in it in
\* every later state
C11_ParticipantNeverRemoved ==
    [][Keys(participants) \subseteq Keys(participants')]_vars

\* the frame is on the "Already answered" path of submit_answer
Refused(r) == r.op = "submit_answer" /\ r.res = "Already answered"

\* C12: a submit_answer that finds an entry for its question index in the
\* participant's answers returns "Already answered", and neither that step nor
\* any later step of it changes the participants object, the recorded answers
\* or a question index
C12_AlreadyAnsweredChangesNothing ==
    [][\A r \in Frames :
          /\ (/\ process_read(r)
              /\ r.user \in Keys(participants)
              /\ r.idx \in Indices(Get(participants, r.user).answers))
             => /\ \E n \in BagToSet(task') : n.user = r.user /\ Refused(n)
                /\ participants' = participants
                /\ recorded' = recorded
          /\ (/\ Refused(r)
              /\ process_participants_unlock(r) \/ submit_answer_unlock(r) \/ Return(r))
             => /\ participants' = participants
                /\ recorded' = recorded
                /\ question_index' = question_index
                /\ \A n \in BagToSet(task') \ Frames : Refused(n)]_vars

\* C12 witness: a submit_answer has returned "Already answered" for a
\* participant who has an answer stored
C12_Witness ==
    \E r \in Frames :
        /\ Refused(r) /\ r.pc = "ret"
        /\ r.user \in Keys(participants)
        /\ r.idx \in Indices(Get(participants, r.user).answers)

\* the submit_answer frames of u that have read the cooldown key as absent and
\* have not yet set it (websocket.py:474-481)
PassedRateCheck(u) ==
    {r \in Frames : r.op = "submit_answer" /\ r.user = u /\ r.pc = "rate_set"}

\* C13: of the submit_answer frames one user sends within the cooldown, one
\* is processed: no two frames of one user are past the rate check together
C13_OneSubmissionPerCooldown ==
    \A u \in Players : InFlight(PassedRateCheck(u)) <= 1

\* C15: the quiz_ended frame is broadcast to the session at most once
C15_QuizEndedOnce == quiz_ended <= 1

\* C17: a session is never active with an empty roster
C17_ActiveHasParticipants == status = "active" => Len(participants) > 0

\* the host ends the session: the end_quiz frame or the REST end
HostEnds == handle_end_quiz(host_id) \/ end_quiz_session(host_id)

\* C18: an end of a session that is already completed leaves the status
\* completed and changes no participant record and no index
C18_SecondEndIsNoOp ==
    [][(status = "completed" /\ HostEnds)
          => /\ status' = "completed"
             /\ participants' = participants
             /\ question_index' = question_index
             /\ current_question_index' = current_question_index]_vars

\* C18 witness: the started session is completed and a second end by the host,
\* dispatched after the first, has been carried out
C18_Witness ==
    /\ status = "completed"
    /\ 0 \in timers
    /\ \E r \in Frames :
          /\ r.op \in {"end_quiz", "end_quiz_session"}
          /\ r.user = host_id
          /\ r.late
          /\ r.res \in {"quiz_ended", "Quiz session ended"}

\* C19: when the channel of a participant closes, the participant's record is
\* kept with its score and answers and its connected flag becomes false
C19_DisconnectMarksDisconnected ==
    [][\A u \in Players :
          (u \in Keys(participants) /\ websocket_disconnect(u))
             => /\ u \in Keys(participants')
                /\ Get(participants', u).score = Get(participants, u).score
                /\ Get(participants', u).answers = Get(participants, u).answers
                /\ ~Get(participants', u).connected]_vars

\* C20: create_session stores its record under a code that is the key of no
\* live session, so no record of a live session is overwritten
C20_CodeCollidesWithNoLiveSession ==
    [][\A r \in Frames : create_session_hset(r) => live[r.res] = NoLock]_vars

\* every participant has answered all questions and has sent the
\* request_next_question that marks it completed
AllFinished ==
    /\ Len(participants) > 0
    /\ \A u \in Keys(participants) :
          IndexOf(question_index, u) >= TotalQuestions /\ completed[u]

\* C14: once every participant has answered all questions and has requested
\* the next question, the session reaches status completed
C14_AllFinishedLeadsToCompleted == AllFinished ~> (status = "completed")

\* the step dispatched a frame or request of u, or resumed one
StepOf(u) ==
    \E n \in BagToSet(task') : n.user = u /\ CopiesIn(n, task') > CopiesIn(n, task)

\* the step answered a frame op of u with the error msg
Rejected(u, op, msg) ==
    \E n \in BagToSet(task') :
        /\ n.op = op /\ n.user = u /\ n.pc = "ret" /\ n.res = msg
        /\ CopiesIn(n, task') > CopiesIn(n, task)

\* start_quiz, next_question and end_quiz of a user who is not the host are
\* answered with an error and leave status and current_question_index alone
NonHostRejected ==
    \A u \in Players :
        /\ handle_start_quiz(u) => Rejected(u, "start_quiz", "Only host can start the quiz")
        /\ handle_next_question(u)
              => Rejected(u, "next_question", "Only host can control questions")
        /\ handle_end_quiz(u) => Rejected(u, "end_quiz", "Only host can end the quiz")
        /\ (handle_start_quiz(u) \/ handle_next_question(u) \/ handle_end_quiz(u))
              => /\ status' = status
                 /\ current_question_index' = current_question_index

\* C16 as stated: no step of a frame or request of a user other than the host
\* changes the status, and the control frames of such a user are rejected
C16_OnlyHostChangesStatus ==
    [][/\ \A u \in Players : StepOf(u) => status' = status
       /\ NonHostRejected]_vars

\* C16: a step of a frame or request of a user other than the host changes the
\* status only when it is the completion check ending the session, and the
\* control frames of such a user are rejected
C16_OnlyHostOrCompletionCheck ==
    [][/\ \A u \in Players :
             (StepOf(u) /\ status' # status)
                => /\ status' = "completed"
                   /\ \E r \in Frames :
                         r.user = u /\ r.op = "request_next_question" /\ check_end(r)
       /\ NonHostRejected]_vars

\* C16 witness: the completion check of a participant's request has ended the
\* session, and an end_quiz of a participant has just been rejected
C16_Witness ==
    /\ status = "completed"
    /\ \E r \in Frames :
          /\ r.op = "request_next_question" /\ r.user \in Players
          /\ r.pc = "completion_unlock" /\ r.all_completed
    /\ \E q \in Frames :
          /\ q.op = "end_quiz" /\ q.user \in Players
          /\ q.res = "Only host can end the quiz"

\* the frame has acquired the lock and has not yet passed the delete that
\* releases it
HoldsAnswerLock(r) ==
    /\ r.op = "submit_answer"
    /\ r.pc \in {"get_index", "participants_lock", "read", "save",
                 "participants_unlock", "advance", "answer_unlock"}

HoldsParticipantsLock(r) ==
    r.op = "submit_answer" /\ r.pc \in {"read", "save", "participants_unlock"}

HoldsSessionLock(r) ==
    r.op \in {"join", "join_session"} /\ r.pc \in {"add_read", "add_save", "session_unlock"}

HoldsCompletionLock(r) ==
    /\ r.op = "request_next_question"
    /\ r.pc \in {"check_session", "check_scan", "check_end", "completion_unlock"}

\* C21: a lock key that is set was acquired by a handler that is still in
\* flight and has its release ahead of it: a handler that has returned, by a
\* result, an early return or an exception, has left no lock behind
C21_LocksReleasedOnEveryPath ==
    /\ \A u \in Users :
          answer_lock[u] # NoLock => \E r \in Frames : r.user = u /\ HoldsAnswerLock(r)
    /\ participants_lock # NoLock => \E r \in Frames : HoldsParticipantsLock(r)
    /\ session_lock # NoLock => \E r \in Frames : HoldsSessionLock(r)
    /\ completion_lock # NoLock => \E r \in Frames : HoldsCompletionLock(r)

\* C21 witness: a submission whose write raised under both locks on every
\* attempt has returned through the exception path, and no lock key is set
C21_Witness ==
    /\ \E r \in Frames :
          /\ r.op = "submit_answer" /\ r.pc = "ret"
          /\ r.res = "Failed to process answer, please try again"
          /\ r.idx = TotalQuestions - 1
    /\ \A u \in Users : answer_lock[u] = NoLock
    /\ participants_lock = NoLock
    /\ session_lock = NoLock
    /\ completion_lock = NoLock

\* the step answered a frame of r's handler and user with the result res
Answered(r, res) ==
    \E n \in BagToSet(task') :
        /\ n.op = r.op /\ n.user = r.user /\ n.res = res
        /\ CopiesIn(n, task') > CopiesIn(n, task)

\* the step leaves the roster, the scores, the answers and the indices alone
NothingRecorded ==
    /\ participants' = participants
    /\ recorded' = recorded
    /\ question_index' = question_index

\* C22: the last failed attempt on the answer lock or on the participants lock
\* ends a submission with "Server busy, please try again", the last failed
\* attempt on the admission lock ends a join with an error, and none of them
\* records an answer or changes a score, an index or the roster
C22_LockExhaustionFails ==
    [][\A r \in Frames :
          /\ (/\ submit_answer_lock(r)
              /\ ~set_nx(answer_lock[r.user])
              /\ r.attempt + 1 >= MaxRetries)
                => Answered(r, "Server busy, please try again") /\ NothingRecorded
          /\ (/\ process_participants_lock(r)
              /\ ~set_nx(participants_lock)
              /\ r.attempt + 1 >= MaxLockRetries)
                => Answered(r, "Server busy, please try again") /\ NothingRecorded
          /\ (/\ add_participant_lock(r)
              /\ ~set_nx(session_lock)
              /\ r.attempt + 1 >= MaxRetries)
                => /\ Answered(r, "join failed") \/ Answered(r, "Failed to join session")
                   /\ NothingRecorded]_vars

\* C23: when the host's channel closes, the status, the roster with its scores
\* and the per-player indices are unchanged, and host_disconnected is broadcast
\* exactly when the status is active
C23_HostDisconnectKeepsSession ==
    [][websocket_disconnect(host_id)
          => /\ status' = status
             /\ participants' = participants
             /\ question_index' = question_index
             /\ current_question_index' = current_question_index
             /\ status = "active"
                  <=> Answered([op |-> "disconnect", user |-> host_id], "host_disconnected")]_vars

C23_Witness ==
    /\ status = "active"
    /\ Keys(participants) # {}
    /\ \E r \in Frames :
          r.op = "disconnect" /\ r.user = host_id /\ r.res = "host_disconnected"

\* one answer to one question of an active session, about to be graded
InitGrading ==
    /\ status = "active"
    /\ participants = <<new_participant("u1")>>
    /\ question_index = [u \in Users |-> IF u = "u1" THEN 0 ELSE NoIndex]
    /\ answer_lock = [u \in Users |-> NoLock]
    /\ participants_lock = NoLock
    /\ session_lock = NoLock
    /\ rate = [u \in Users |-> FALSE]
    /\ task = EmptyBag
    /\ recorded = {}
    /\ ops = 0
    /\ current_question_index = 0
    /\ timers = {}
    /\ active_timers = {}
    /\ completed = [u \in Users |-> FALSE]
    /\ completion_lock = NoLock
    /\ quiz_ended = 0
    /\ live = [c \in Codes |-> IF c = session_code THEN host_id ELSE NoLock]
    /\ NoConnections
    /\ \E q \in Questions, t \in Timestamps, T \in TimeLimits :
          \E a \in AnswersTo(q) :
             grading = [graded |-> FALSE, question |-> q, answer |-> a,
                        timestamp |-> t, per_question_time_limit |-> T,
                        is_correct |-> FALSE, points |-> 0]

SpecGrading == InitGrading /\ [][process_answer_points]_vars

\* C24: a correct singleMcq answer scores 2000 at client timestamp 0 and 1000
\* at every client timestamp from the session's per_question_time_limit on
C24_SpeedBonusOverSessionLimit ==
    (/\ grading.graded
     /\ grading.question.type = "singleMcq"
     /\ grading.is_correct)
        => /\ grading.timestamp = 0 => grading.points = 2 * base_points
           /\ grading.timestamp >= grading.per_question_time_limit
                 => grading.points = base_points

\* the answer graded is a multiMcq selection U and the correct set is C
GradedSelection ==
    grading.graded /\ grading.question.type = "multiMcq"

\* C25: for a multiMcq selection U that is a proper subset of the correct set
\* C, at every client timestamp, 0 < points < 2000 exactly when
\* |U \ C| < |C \cap U|; and is_correct holds only when U = C
C25_PartialCreditForProperSubset ==
    GradedSelection
       => LET U == grading.answer
              C == grading.question.correct
          IN /\ (U \subseteq C /\ U # C)
                  => ((0 < grading.points /\ grading.points < 2 * base_points)
                        <=> Cardinality(U \ C) < Cardinality(C \cap U))
             /\ grading.is_correct => U = C

C25_Witness ==
    /\ GradedSelection
    /\ grading.question.correct = {0, 1, 2}
    /\ grading.answer = {0, 2}
    /\ grading.timestamp = 5
    /\ grading.question.timeLimit = 10
    /\ grading.points = 999
    /\ ~grading.is_correct

\* the started quiz with submissions and leaderboard requests
NextLeaderboard ==
    \/ ~Returning /\ SubmitSteps
    \/ ~Returning /\ (\E u \in Users : handle_request_leaderboard(u))
    \/ Returns

SpecLeaderboard == InitSubmit /\ [][NextLeaderboard]_vars

\* entry a comes before entry b in the order (score descending,
\* answered_count descending, joined_at ascending); the roster keeps its
\* records in the order of their joined_at
RanksBefore(a, b) ==
    \/ a.score > b.score
    \/ /\ a.score = b.score
       /\ a.answered_count > b.answered_count
    \/ /\ a.score = b.score
       /\ a.answered_count = b.answered_count
       /\ Pos(participants, a.user_id) < Pos(participants, b.user_id)

\* C26: the leaderboard sent to a client has one entry per participant, sorted
\* by score descending, then answered_count descending, then joined_at
\* ascending
C26_LeaderboardOrder ==
    [][\A u \in Users :
          handle_request_leaderboard(u)
             => \E n \in BagToSet(task') :
                   /\ n.op = "request_leaderboard" /\ n.user = u
                   /\ CopiesIn(n, task') > CopiesIn(n, task)
                   /\ Len(n.snap) = Len(participants)
                   /\ {n.snap[i].user_id : i \in 1..Len(n.snap)} = Keys(participants)
                   /\ \A i, j \in 1..Len(n.snap) :
                         i < j => RanksBefore(n.snap[i], n.snap[j])]_vars

\* C27: a join of a user who is not the host and not in the roster writes a
\* participant record only while the status is waiting, also when the host's
\* start races with it; a join that arrives at another status is answered
\* with an error and leaves the roster alone
C27_NewParticipantOnlyWhileWaiting ==
    [][/\ \A r \in Frames :
             (/\ add_participant_save(r)
              /\ r.user \notin Keys(participants)
              /\ r.user \in Keys(participants'))
                => status = "waiting"
       /\ \A u \in Players :
             (u \notin Keys(participants) /\ status # "waiting")
                => /\ handle_join(u)
                      => /\ Answered([op |-> "join", user |-> u], "Session is already active")
                         /\ participants' = participants
                   /\ join_session(u)
                      => /\ Answered([op |-> "join_session", user |-> u], "Quiz has already started")
                         /\ participants' = participants]_vars

\* C28: a user who is not in the roster and sends join while the status is
\* active is admitted (the join goes on to add_participant instead of being
\* answered with an error), and the late joiner's index is initialized to 0
C28_LateJoinerAdmitted ==
    [][/\ \A u \in Players :
             (/\ handle_join(u)
              /\ u \notin Keys(participants)
              /\ status = "active")
                => \E n \in BagToSet(task') :
                      /\ n.op = "join" /\ n.user = u /\ n.pc = "session_lock"
                      /\ CopiesIn(n, task') > CopiesIn(n, task)
       /\ \A r \in Frames :
             join_late_init(r) => question_index'[r.user] = 0]_vars

\* C29: an advance of the shared question, by the host's next_question frame
\* or by the timer, adds one to current_question_index and leaves the status,
\* every per-player index, every score and every answer as they were; no step
\* of the two handlers touches a participant
C29_AdvanceKeepsPlayers ==
    [][/\ (\E r \in Frames : next_question(r))
             => /\ current_question_index' = current_question_index + 1
                /\ status' = status
                /\ participants' = participants
                /\ question_index' = question_index
                /\ recorded' = recorded
       /\ PacingSteps
             => /\ participants' = participants
                /\ question_index' = question_index]_vars

C29_Witness ==
    /\ current_question_index = 1
    /\ \A u \in Players : question_index[u] = TotalQuestions
    /\ \E r \in Frames :
          r.op \in {"next_question", "auto_advance"} /\ r.pc = "ret" /\ r.res = "question"

\* the frame is inside the scan guarded by completion_check:<code>
Scanning(r) ==
    r.pc \in {"check_session", "check_scan", "check_end", "completion_unlock"}

\* C30: completion detection marks the session completed only when every
\* participant of the roster has a per-player index of at least
\* total_questions; a scan that reads the status completed, and a caller that
\* finds completion_check:<code> held, change nothing; and at most one scan
\* runs at a time
C30_CompletionDetection ==
    [][\A r \in Frames :
          /\ check_end(r)
               => \A u \in Keys(participants) : question_index[u] >= TotalQuestions
          /\ (check_session(r) /\ status = "completed")
               => /\ \E n \in BagToSet(task') :
                        /\ n.pc = "completion_unlock"
                        /\ CopiesIn(n, task') > CopiesIn(n, task)
                  /\ UNCHANGED <<status, quiz_ended, participants, question_index>>
          /\ (check_lock(r) /\ ~set_nx(completion_lock))
               => /\ \E n \in BagToSet(task') :
                        /\ n.pc = "ret"
                        /\ CopiesIn(n, task') > CopiesIn(n, task)
                  /\ UNCHANGED <<status, quiz_ended, participants, question_index,
                                 completion_lock>>
          /\ (check_lock(r) /\ set_nx(completion_lock))
               => \A other \in Frames : ~Scanning(other)]_vars

C30_Witness ==
    /\ status = "completed"
    /\ quiz_ended = 1
    /\ timers = {}
    /\ \A u \in Players : question_index[u] = TotalQuestions
    /\ \E r \in Frames :
          /\ r.op = "request_next_question"
          /\ r.pc = "completion_unlock"
          /\ r.all_completed

\* the step took the timer coroutine of question i to its return, with nothing sent
TimerGaveUp(i) ==
    \E n \in BagToSet(task') :
        /\ n.op = "auto_advance" /\ n.idx = i /\ n.pc = "ret" /\ n.res = ""
        /\ CopiesIn(n, task') > CopiesIn(n, task)

\* the session record, the roster and the broadcasts are as they were
SessionUntouched ==
    UNCHANGED <<status, current_question_index, active_timers, quiz_ended,
                participants, question_index>>

C32_TimersCancelledOnAdvanceAndEnd ==
    [][/\ (handle_end_quiz(host_id) \/ end_quiz_session(host_id)) => timers' = {}
       /\ \A r \in Frames :
             (r.op = "next_question" /\ get_current_question(r))
                => timers' \subseteq {current_question_index}]_vars

\* sockets that open and close and broadcasts to the session
RegistrySteps ==
    \/ \E u \in Users, ws \in Channels : websocket_connect(u, ws)
    \/ \E u \in Users : websocket_disconnect(u)
    \/ broadcast_to_session
    \/ \E r \in BagToSet(task), success \in BOOLEAN :
          \E e \in r.connections : send_to_user(r, e, success)
    \/ \E r \in BagToSet(task) : broadcast_cleanup(r)

NextRegistry ==
    \/ ~Returning /\ RegistrySteps
    \/ Returns

SpecRegistry == Init /\ [][NextRegistry]_vars

\* C33: a socket B attached for a user whose socket A is still registered
\* takes the user's entry, and the detach issued when A's read loop ends
\* leaves B registered
C33_ReconnectKeepsNewChannel ==
    [][\A u \in Users :
          /\ \A ws \in Channels :
                websocket_connect(u, ws) => session_connections'[u] = ws
          /\ \A e \in endpoints :
                (/\ websocket_disconnect(u)
                 /\ e.user_id = u
                 /\ e \notin endpoints'
                 /\ session_connections[u] # e.ws
                 /\ [user_id |-> u, ws |-> session_connections[u]] \in endpoints')
                   => session_connections'[u] = session_connections[u]]_vars

\* C34: a broadcast delivers to every socket of its snapshot whose send
\* succeeds, and its cleanup removes from the bucket exactly the sockets whose
\* send failed: the entry of a user is kept when it holds a socket that was
\* attached during the broadcast
C34_BroadcastRemovesOnlyFailedChannels ==
    [][\A r \in Frames :
          broadcast_cleanup(r)
             => /\ r.delivered \cup {e \in r.connections : e.user_id \in r.dead_users}
                      = r.connections
                /\ \A u \in Users :
                      session_connections'[u] =
                         IF /\ u \in r.dead_users
                            /\ [user_id |-> u, ws |-> session_connections[u]] \in r.connections
                         THEN NoChannel
                         ELSE session_connections[u]]_vars

\* C35: when the handler of a start_quiz frame that made the session active
\* returns, every participant of the roster has per-player index 0 (a missing
\* key reads as 0), quiz_started and question 0 have been broadcast, and the
\* timer of question 0 is scheduled
C35_StartInitializesEveryone ==
    [][\A r \in Frames :
          (start_init(r) /\ r.todo = <<>>)
             => /\ Answered(r, "quiz_started")
                /\ 0 \in timers'
                /\ \A u \in Keys(participants') :
                      IF question_index'[u] = NoIndex THEN TRUE
                      ELSE question_index'[u] = 0]_vars

\* C36: an answer is appended, the score increased and the index advanced
\* only while the status is active; a submit_answer of a waiting session
\* records nothing
C36_RecordsOnlyWhileActive ==
    [][\A r \in Frames :
          /\ (process_save(r) /\ participants' # participants) => status = "active"
          /\ (process_advance(r) /\ question_index' # question_index) => status = "active"]_vars

\* C37: every question frame sent to a participant carries the participant's
\* own per-player index: a question broadcast by next_question or by the
\* timer, and a question sent in answer to request_next_question, has the
\* index of each participant that receives it
C37_QuestionSentIsPlayersQuestion ==
    [][/\ \A r \in Frames :
             (get_current_question(r) /\ current_question_index < TotalQuestions)
                => \A u \in Keys(participants) :
                      get_participant_question_index(u) = current_question_index
       /\ \A r \in Frames :
             (request_index(r) /\ Answered(r, "question"))
                => \E n \in BagToSet(task') :
                      /\ n.op = r.op /\ n.user = r.user /\ n.res = "question"
                      /\ n.idx = get_participant_question_index(r.user)]_vars

\* C38: no participant is left refused for good: in an active session with no
\* frame in flight, a participant whose index is below total_questions has no
\* answer stored for that index, so that its next submission is recorded and
\* moves the index on (a stored answer for the index makes every later
\* submission end with "Already answered", and only a recorded submission
\* moves the index of a started participant)
C38_NeverRefusedForGood ==
    \A u \in Keys(participants) :
        (/\ status = "active"
         /\ task = EmptyBag
         /\ get_participant_question_index(u) < TotalQuestions)
           => ~already_answered(Get(participants, u),
                                get_participant_question_index(u))

\* a frame that has incremented current_question_index and has not yet read
\* the question to broadcast
BroadcastPending(r) == r.pc = "get_current_question"

\* C39: no question is skipped when the host's next_question races with a
\* timer: when one of the two increments current_question_index from k to
\* k+1 and k is the index of a question, the other does not still have the
\* broadcast of question k, the result of its own increment, ahead of it
C39_NoQuestionSkipped ==
    [][\A r \in Frames :
          (next_question(r) /\ current_question_index < TotalQuestions)
             => ~\E c \in Frames : BroadcastPending(c) /\ c.op # r.op]_vars
\* at most one frame in flight is inside each critical section
OneHolderPerLock ==
    /\ \A u \in Users :
          InFlight({r \in Frames : r.user = u /\ HoldsAnswerLock(r)}) <= 1
    /\ InFlight({r \in Frames : HoldsParticipantsLock(r)}) <= 1
    /\ InFlight({r \in Frames : HoldsSessionLock(r)}) <= 1

\* C40: a lock key that is set is deleted only by the release of a frame that
\* holds it (the answer lock by the finally of the submission that acquired
\* it, the participants lock by the finally of the submission inside the
\* read-modify-write, the admission lock by the finally of the join that
\* acquired it), and after every step at most one frame is inside each
\* critical section
C40_LockDeletedByHolderOnly ==
    [][/\ \A u \in Users :
             (answer_lock[u] # NoLock /\ answer_lock'[u] = NoLock)
                => \E r \in Frames :
                      r.user = u /\ HoldsAnswerLock(r) /\ submit_answer_unlock(r)
       /\ (participants_lock # NoLock /\ participants_lock' = NoLock)
             => \E r \in Frames :
                   HoldsParticipantsLock(r) /\ process_participants_unlock(r)
       /\ (session_lock # NoLock /\ session_lock' = NoLock)
             => \E r \in Frames : HoldsSessionLock(r) /\ add_participant_unlock(r)
       /\ OneHolderPerLock']_vars


====
